---- MODULE Spec2Model ----
(***************************************************************************)
(* Room & game coordination server of omok (five in a row): the in-memory  *)
(* room registry, the websocket message handlers, win detection and the    *)
(* restart vote.  One action per handler; every handler runs to completion *)
(* (single-threaded event loop), so each action is one atomic step.        *)
(***************************************************************************)
EXTENDS Integers, Sequences, FiniteSets, TLC

\* ---- program constants ----
BOARD_SIZE == 15
EMPTY == 0
BLACK == 1
WHITE == 2

\* ---- bounds of the model ----
MaxX == 1
MaxScore == 1

\* The connections that may be open at one time.
Socks == {"c1", "c2", "c3"}

\* The invite codes generateInviteCode returns, and one it never returned.
Codes == {"ABC123"}
UnknownCode == "ZZZZZZ"

\* Identity tokens a client may present in ?cid= (any string).  "constructor"
\* is a member of Object.prototype, which the players object inherits from.
ClientIds == {"a", "b", "constructor"}

\* The tokens each connection presents: two clients with tokens of their
\* own, and a third that reuses the first token or presents an inherited name.
IdChoices(s) ==
  IF s = "c1" THEN {"a"} ELSE IF s = "c2" THEN {"b"} ELSE {"a", "constructor"}

\* Property names every object literal inherits from Object.prototype.
ProtoKeys == {"constructor"}

\* ws.roomId before any create_room / join_room (undefined).
NoRoomId == ""

\* Coordinates a place_stone payload may carry: one row of the board and
\* values beyond each edge.
MoveInputs ==
  {<<x, 0>> : x \in 0..MaxX} \cup
  {<<-1, 0>>, <<BOARD_SIZE, 0>>, <<0, -1>>, <<0, BOARD_SIZE>>}

VARIABLES
  rooms,   \* the registry: invite code -> room
  ws,      \* per connection: status, clientId, roomId
  sent,    \* per connection: the messages the last handler sent to it
  last,    \* the kind of event the last handler ran for
  cw       \* a call of checkWin on its own: the arguments and the result

vars == <<rooms, ws, sent, last, cw>>

\* ------------------------------------------------------------------ board

\* The board is kept sparse: the function holds the non-EMPTY cells only.
createEmptyBoard == <<>>

InBounds(x, y) == x >= 0 /\ x < BOARD_SIZE /\ y >= 0 /\ y < BOARD_SIZE

Cell(board, x, y) ==
  IF <<x, y>> \in DOMAIN board THEN board[<<x, y>>] ELSE EMPTY

SetCell(board, x, y, v) ==
  [c \in DOMAIN board \cup {<<x, y>>} |-> IF c = <<x, y>> THEN v ELSE board[c]]

directions == {<<1, 0>>, <<0, 1>>, <<1, 1>>, <<1, -1>>}

RECURSIVE CountDir(_, _, _, _, _, _)
\* One while loop of checkWin: the matching cells from (nx,ny) on, stepping
\* by (dx,dy), up to the first cell that is out of bounds or of another color.
CountDir(board, color, nx, ny, dx, dy) ==
  IF InBounds(nx, ny) /\ Cell(board, nx, ny) = color
  THEN 1 + CountDir(board, color, nx + dx, ny + dy, dx, dy)
  ELSE 0

WinThreshold == 5

\* AxisCount without its second loop: the run is counted one way only.
AxisCount_OneWay(board, x, y, d) ==
  1 + CountDir(board, Cell(board, x, y), x + d[1], y + d[2], d[1], d[2])

\* One round of the loop over directions: the stone and the matching cells
\* on both sides of it.
AxisCount(board, x, y, d) ==
  1 + CountDir(board, Cell(board, x, y), x + d[1], y + d[2], d[1], d[2])
    + CountDir(board, Cell(board, x, y), x - d[1], y - d[2], -d[1], -d[2])

checkWin(board, x, y) ==
  /\ Cell(board, x, y) # EMPTY
  /\ \E d \in directions : AxisCount(board, x, y, d) >= WinThreshold

\* ------------------------------------------------------------------ rooms

\* The room object of createRoom.  voted and votedBy are history kept for the
\* properties, not fields of the program: the identities that sent
\* request_restart to the room since its last restart or game start, and the
\* connections that sent it since the last restart, join, leave or close.
NewRoom(code) ==
  [ code |-> code,
    players |-> <<>>,
    sockets |-> {},
    board |-> createEmptyBoard,
    turn |-> BLACK,
    started |-> FALSE,
    winner |-> EMPTY,
    restartVotes |-> {},
    voted |-> {},
    votedBy |-> {} ]

\* rooms.set(id, room): registers, replacing whatever the code named before.
createRoom(reg, room) ==
  [c \in DOMAIN reg \cup {room.code} |-> IF c = room.code THEN room ELSE reg[c]]

DeleteRoom(reg, code) == [c \in DOMAIN reg \ {code} |-> reg[c]]

\* Object.keys(room.players): the own keys, in insertion order.
OwnKeys(players) == [i \in 1..Len(players) |-> players[i].id]

HasOwn(players, cid) == \E i \in 1..Len(players) : players[i].id = cid

IndexOf(players, cid) == CHOOSE i \in 1..Len(players) : players[i].id = cid

\* Truthiness of room.players[clientId]: an own entry, or a property the
\* object inherits from Object.prototype.
Truthy(players, cid) == HasOwn(players, cid) \/ cid \in ProtoKeys

\* room.players[clientId].color ("undefined" for an inherited property).
ColorOf(players, cid) ==
  IF HasOwn(players, cid) THEN players[IndexOf(players, cid)].color
  ELSE "undefined"

\* delete room.players[clientId]
DeletePlayer(players, cid) ==
  SelectSeq(players, LAMBDA p : p.id # cid)

\* room.players[clientId] = { color: null, score: 0 }
AddPlayer(players, cid) ==
  IF HasOwn(players, cid)
  THEN [players EXCEPT ![IndexOf(players, cid)] =
          [id |-> cid, color |-> "null", score |-> 0]]
  ELSE Append(players, [id |-> cid, color |-> "null", score |-> 0])

serializeRoomPublic(room) ==
  [ code |-> room.code,
    players |-> room.players,
    board |-> room.board,
    turn |-> room.turn,
    started |-> room.started,
    winner |-> room.winner ]

\* ---------------------------------------------------------------- sending

NoneSent == [s \in Socks |-> <<>>]

\* A send that goes to every open connection instead of the one addressed.
SendTo_Everyone(out, s, msg) ==
  [t \in Socks |-> IF ws[t].status = "open" THEN Append(out[t], msg) ELSE out[t]]

\* ws.send reaches the peer only while the connection is open.
SendTo(out, s, msg) ==
  IF ws[s].status = "open" THEN [out EXCEPT ![s] = Append(@, msg)] ELSE out

\* broadcast(room, type, payload): one send per connection of room.sockets.
broadcast(out, room, msg) ==
  [s \in Socks |->
     IF s \in room.sockets /\ ws[s].status = "open"
     THEN Append(out[s], msg) ELSE out[s]]


\* ------------------------------------------------------------------- init

NoCall == [board |-> <<>>, x |-> 0, y |-> 0, result |-> "none"]

Init ==
  /\ cw = NoCall
  /\ rooms = <<>>
  /\ ws = [s \in Socks |-> [status |-> "idle", clientId |-> "", roomId |-> NoRoomId]]
  /\ sent = NoneSent
  /\ last = "init"

\* rooms.get(ws.roomId), when ws.roomId is set and names a registered room.
Bound(s) == ws[s].roomId # NoRoomId /\ ws[s].roomId \in DOMAIN rooms

\* ---------------------------------------------------------------- actions

\* A client opens a connection with ?cid=<cid>: attachSocket.
Connect(s, cid) ==
  /\ ws[s].status = "idle"
  /\ ws' = [ws EXCEPT ![s] = [status |-> "open", clientId |-> cid, roomId |-> NoRoomId]]
  /\ sent' = [NoneSent EXCEPT ![s] = <<[type |-> "hello", clientId |-> cid]>>]
  /\ last' = "connect"
  /\ UNCHANGED cw
  /\ UNCHANGED rooms

\* GET /api/create
HttpCreate(code) ==
  /\ rooms' = createRoom(rooms, NewRoom(code))
  /\ sent' = NoneSent
  /\ last' = "http_create"
  /\ UNCHANGED cw
  /\ UNCHANGED ws

\* { type: "create_room" }
CreateRoomMsg(s, code) ==
  /\ ws[s].status = "open"
  /\ LET created == [NewRoom(code) EXCEPT
                       !.sockets = {s},
                       !.players = AddPlayer(<<>>, ws[s].clientId)]
         pub == serializeRoomPublic(created)
     IN /\ rooms' = createRoom(rooms, created)
        /\ ws' = [ws EXCEPT ![s].roomId = code]
        /\ sent' = SendTo(broadcast(NoneSent, created,
                                    [type |-> "room_update", room |-> pub]),
                          s, [type |-> "room_created", room |-> pub])
  /\ last' = "create_room"
  /\ UNCHANGED cw

\* pickColorsForTwo without the shuffle: the first key is always BLACK.
pickColorsForTwo_InOrder(ids, first) ==
  [i \in {1, 2} |-> IF i = 1 THEN BLACK ELSE WHITE]

\* pickColorsForTwo(ids): the random sort leaves the pair in either order;
\* first picks the index (1 or 2) of the identity that ends up first (BLACK).
pickColorsForTwo(ids, first) ==
  [i \in {1, 2} |-> IF i = first THEN BLACK ELSE WHITE]

\* The body of join_room once the target is found and not full.
JoinAccepted(target, s, first) ==
  LET cid == ws[s].clientId
      t1 == [target EXCEPT
               !.votedBy = {},
               !.sockets = @ \cup {s},
               !.players = IF Truthy(@, cid) THEN @ ELSE AddPlayer(@, cid)]
      ids == OwnKeys(t1.players)
      colors == pickColorsForTwo(SubSeq(ids, 1, 2), first)
  IN IF Cardinality(t1.sockets) = 2 /\ Len(ids) >= 2
     THEN [t1 EXCEPT
             !.players = [i \in 1..Len(@) |->
                            IF i \in {1, 2}
                            THEN [@[i] EXCEPT !.color =
                                    IF colors[i] = BLACK THEN "B" ELSE "W"]
                            ELSE @[i]],
             !.started = TRUE,
             !.turn = BLACK,
             !.voted = {}]
     ELSE t1

\* A room that takes a third connection.
RoomFull_Three(target) == Cardinality(target.sockets) >= 3

\* target.sockets.size >= 2
RoomFull(target) == Cardinality(target.sockets) >= 2

\* Whether this join_room reaches the color assignment (the only place the
\* random order is drawn).
AssignsColors(s, code) ==
  /\ code \in DOMAIN rooms
  /\ ~RoomFull(rooms[code])
  /\ Cardinality(rooms[code].sockets \cup {s}) = 2
  /\ Len(JoinAccepted(rooms[code], s, 1).players) >= 2

\* { type: "join_room", payload: { code } }
JoinRoom(s, code, first) ==
  /\ ws[s].status = "open"
  /\ last' = "join_room"
  /\ UNCHANGED cw
  /\ IF code \notin DOMAIN rooms
     THEN /\ sent' = SendTo(NoneSent, s, [type |-> "error", message |-> "not found"])
          /\ UNCHANGED <<rooms, ws>>
     ELSE IF RoomFull(rooms[code])
     THEN /\ sent' = SendTo(NoneSent, s, [type |-> "error", message |-> "full"])
          /\ UNCHANGED <<rooms, ws>>
     ELSE LET target == JoinAccepted(rooms[code], s, first)
          IN /\ rooms' = [rooms EXCEPT ![code] = target]
             /\ ws' = [ws EXCEPT ![s].roomId = code]
             /\ sent' = broadcast(NoneSent, target,
                          [type |-> "room_update", room |-> serializeRoomPublic(target)])

\* player.color === "B" ? BLACK : WHITE
playerColorNum(players, cid) ==
  IF ColorOf(players, cid) = "B" THEN BLACK ELSE WHITE

\* The guards of place_stone, in the order of the early returns.
PlaceRejected(s, x, y) ==
  \/ ~Bound(s)
  \/ ~rooms[ws[s].roomId].started
  \/ rooms[ws[s].roomId].winner # EMPTY
  \/ ~Truthy(rooms[ws[s].roomId].players, ws[s].clientId)
  \/ playerColorNum(rooms[ws[s].roomId].players, ws[s].clientId) # rooms[ws[s].roomId].turn
  \/ x < 0 \/ x >= BOARD_SIZE \/ y < 0 \/ y >= BOARD_SIZE
  \/ Cell(rooms[ws[s].roomId].board, x, y) # EMPTY

\* player.score += 1 (a player object that is not an own entry of
\* room.players leaves the room untouched).
AddScore(players, cid) ==
  IF HasOwn(players, cid)
  THEN [players EXCEPT ![IndexOf(players, cid)].score = @ + 1]
  ELSE players

ScoreOf(players, cid) ==
  IF HasOwn(players, cid) THEN players[IndexOf(players, cid)].score ELSE 0

\* { type: "place_stone", payload: { x, y } }
PlaceStone(s, x, y) ==
  /\ ws[s].status = "open"
  /\ last' = "place_stone"
  /\ UNCHANGED cw
  /\ UNCHANGED ws
  /\ IF PlaceRejected(s, x, y)
     THEN /\ sent' = NoneSent
          /\ UNCHANGED rooms
     ELSE LET code == ws[s].roomId
              r == rooms[code]
              cid == ws[s].clientId
              num == playerColorNum(r.players, cid)
              b == SetCell(r.board, x, y, num)
          IN IF checkWin(b, x, y)
             THEN LET r2 == [r EXCEPT !.board = b, !.winner = num,
                                      !.players = AddScore(@, cid)]
                  IN /\ ScoreOf(r.players, cid) < MaxScore
                     /\ rooms' = [rooms EXCEPT ![code] = r2]
                     /\ sent' = broadcast(NoneSent, r2,
                                  [type |-> "game_end", winner |-> r2.winner,
                                   board |-> r2.board, players |-> r2.players])
             ELSE LET r2 == [r EXCEPT !.board = b,
                                      !.turn = IF @ = BLACK THEN WHITE ELSE BLACK]
                  IN /\ rooms' = [rooms EXCEPT ![code] = r2]
                     /\ sent' = broadcast(NoneSent, r2,
                                  [type |-> "move", x |-> x, y |-> y,
                                   color |-> ColorOf(r.players, cid),
                                   turn |-> r2.turn])

\* A payload coordinate that need not be an integer: <<"int", n>> is n,
\* <<"fraction", n>> is n + 0.5, <<"missing", 0>> is undefined.
OtherInputs ==
  { <<<<"missing", 0>>, <<"int", 0>>>>,
    <<<<"int", 0>>, <<"missing", 0>>>>,
    <<<<"int", 0>>, <<"fraction", 1>>>> }

\* v < 0 || v >= BOARD_SIZE: both comparisons are false for undefined.
OutOfRange(v) == v[1] # "missing" /\ (v[2] < 0 \/ v[2] >= BOARD_SIZE)

\* r.board[y] is a row only for an integer y.
IsIndex(v) == v[1] = "int"

\* The early returns of place_stone for such a payload; the read of
\* r.board[y][x] returns undefined, which is not EMPTY, when board[y] is a row.
OtherRejected(s, vx, vy) ==
  \/ ~Bound(s)
  \/ ~rooms[ws[s].roomId].started
  \/ rooms[ws[s].roomId].winner # EMPTY
  \/ ~Truthy(rooms[ws[s].roomId].players, ws[s].clientId)
  \/ playerColorNum(rooms[ws[s].roomId].players, ws[s].clientId)
       # rooms[ws[s].roomId].turn
  \/ OutOfRange(vx) \/ OutOfRange(vy)
  \/ IsIndex(vy)

\* place_stone with a payload whose x or y is missing or not an integer.
\* After the guards of lines 217-222, r.board[y][x] reads a property of
\* undefined when board[y] is no row: the TypeError leaves the message
\* handler.  Nothing in the program catches it; the process exits, and with
\* it the registry and every connection, unless the runtime is told to keep
\* running (survives), and then the state stays as it is.
PlaceStoneOther(s, vx, vy, survives) ==
  /\ ws[s].status = "open"
  /\ UNCHANGED cw
  /\ sent' = NoneSent
  /\ IF OtherRejected(s, vx, vy)
     THEN /\ last' = "place_stone"
          /\ UNCHANGED <<rooms, ws>>
     ELSE /\ last' = "uncaught_exception"
          /\ IF survives
             THEN UNCHANGED <<rooms, ws>>
             ELSE /\ rooms' = <<>>
                  /\ ws' = [t \in Socks |->
                              [status |-> "idle", clientId |-> "", roomId |-> NoRoomId]]

Min(a, b) == IF a < b THEN a ELSE b

\* Votes needed for a restart: Math.min(2, r.sockets.size).
Quorum(r) == Min(2, Cardinality(r.sockets))

\* { type: "request_restart" }
RequestRestart(s) ==
  /\ ws[s].status = "open"
  /\ last' = "request_restart"
  /\ UNCHANGED cw
  /\ UNCHANGED ws
  /\ IF ~Bound(s)
     THEN /\ sent' = NoneSent
          /\ UNCHANGED rooms
     ELSE LET code == ws[s].roomId
              r == [rooms[code] EXCEPT !.restartVotes = @ \cup {ws[s].clientId},
                                      !.voted = @ \cup {ws[s].clientId},
                                      !.votedBy = @ \cup {s}]
          IN IF Cardinality(r.restartVotes) >= Quorum(r)
             THEN LET r2 == [r EXCEPT
                               !.board = createEmptyBoard,
                               !.turn = BLACK,
                               !.started = Cardinality(r.sockets) >= 2,
                               !.winner = EMPTY,
                               !.restartVotes = {},
                               !.voted = {},
                               !.votedBy = {}]
                  IN /\ rooms' = [rooms EXCEPT ![code] = r2]
                     /\ sent' = broadcast(NoneSent, r2,
                                  [type |-> "restart", room |-> serializeRoomPublic(r2)])
             ELSE /\ rooms' = [rooms EXCEPT ![code] = r]
                  /\ sent' = broadcast(NoneSent, r,
                               [type |-> "restart_vote",
                                votes |-> Cardinality(r.restartVotes)])

\* A departure that forgets to delete the player's entry.
Depart_KeepsPlayer(r, s) ==
  [r EXCEPT !.sockets = @ \ {s}, !.started = FALSE, !.winner = EMPTY]

\* What leave_room and the close handler both do to the room.
Depart(r, s) ==
  [r EXCEPT
     !.votedBy = {},
     !.sockets = @ \ {s},
     !.players = DeletePlayer(@, ws[s].clientId),
     !.started = FALSE,
     !.winner = EMPTY]

\* { type: "leave_room" }
LeaveRoom(s) ==
  /\ ws[s].status = "open"
  /\ last' = "leave_room"
  /\ UNCHANGED cw
  /\ UNCHANGED ws
  /\ IF ~Bound(s)
     THEN /\ sent' = NoneSent
          /\ UNCHANGED rooms
     ELSE LET code == ws[s].roomId
              r == Depart(rooms[code], s)
          IN /\ rooms' = [rooms EXCEPT ![code] = r]
             /\ sent' = broadcast(NoneSent, r,
                          [type |-> "room_update", room |-> serializeRoomPublic(r)])

\* A closed connection sends nothing more, so its fields are dropped; one
\* that no room still holds is gone for good and its slot is free again.
Closed(s, reg) ==
  [ status |-> IF \E c \in DOMAIN reg : s \in reg[c].sockets
               THEN "closed" ELSE "idle",
    clientId |-> "",
    roomId |-> NoRoomId ]

\* ws.on("close")
Close(s) ==
  /\ ws[s].status = "open"
  /\ last' = "close"
  /\ UNCHANGED cw
  /\ IF ~Bound(s)
     THEN /\ sent' = NoneSent
          /\ UNCHANGED rooms
     ELSE LET code == ws[s].roomId
              r == Depart(rooms[code], s)
          IN /\ rooms' = IF r.sockets = {}
                         THEN DeleteRoom(rooms, code)
                         ELSE [rooms EXCEPT ![code] = r]
             /\ sent' = broadcast(NoneSent, r,
                          [type |-> "room_update", room |-> serializeRoomPublic(r)])
  /\ ws' = [ws EXCEPT ![s] = Closed(s, rooms')]

\* Whether some open connection already presents the token.
Presented(cid) == \E t \in Socks : ws[t].status = "open" /\ ws[t].clientId = cid

\* One step of the server.  generateInviteCode draws the code at random: with
\* collide it may repeat the code of a registered room, without it the draw
\* is a code no registered room has.  With reuse a client may open a
\* connection with a token another open connection presents.
\* codes are the codes generateInviteCode may draw, clients the connections
\* that clients open, moves the coordinates they send.
StepOn(codes, clients, moves, collide, reuse) ==
  \/ \E s \in clients, cid \in ClientIds :
       /\ cid \in IdChoices(s)
       /\ reuse \/ ~Presented(cid)
       /\ Connect(s, cid)
  \/ \E code \in codes : (collide \/ code \notin DOMAIN rooms) /\ HttpCreate(code)
  \/ \E s \in clients, code \in codes :
       (collide \/ code \notin DOMAIN rooms) /\ CreateRoomMsg(s, code)
  \/ \E s \in clients, code \in codes \cup {UnknownCode}, first \in {1, 2} :
       /\ first = 2 => AssignsColors(s, code)
       /\ JoinRoom(s, code, first)
  \/ \E s \in clients, m \in moves : PlaceStone(s, m[1], m[2])
  \/ \E s \in clients, m \in OtherInputs, survives \in BOOLEAN :
       /\ survives => ~OtherRejected(s, m[1], m[2])
       /\ PlaceStoneOther(s, m[1], m[2], survives)
  \/ \E s \in clients : RequestRestart(s)
  \/ \E s \in clients : LeaveRoom(s)
  \/ \E s \in clients : Close(s)

Step(collide, reuse) == StepOn(Codes, Socks, MoveInputs, collide, reuse)

Next == Step(TRUE, TRUE)

Spec == Init /\ [][Next]_vars

\* The behaviours of Spec in which no invite code is drawn twice and no
\* token is presented by two open connections.
NextPlain == Step(FALSE, FALSE)

SpecPlain == Init /\ [][NextPlain]_vars

\* The server with two invite codes to draw, so that two rooms are registered
\* at once, two clients, and no move inside the board.
TwoCodes == {"ABC123", "DEF456"}

NextTwoRooms == StepOn(TwoCodes, {"c1", "c2"}, {<<-1, 0>>}, FALSE, FALSE)

SpecTwoRooms == Init /\ [][NextTwoRooms]_vars

\* A position late in a game, as the program reaches it from Init: a opened
\* c1 and created ABC123; c3 (?cid=constructor) joined and sent leave_room,
\* which leaves its ws.roomId in place; b joined on c2 and the draw made a
\* Black; then nine moves in turn, Black on row 1 and White on row 0, the last
\* one Black's at (7,1).  White has four in a row and is to move.
EndgameBoard ==
  [c \in {<<2, 0>>, <<3, 0>>, <<4, 0>>, <<5, 0>>,
          <<2, 1>>, <<3, 1>>, <<4, 1>>, <<5, 1>>, <<7, 1>>} |->
     IF c[2] = 0 THEN WHITE ELSE BLACK]

InitEndgame ==
  /\ cw = NoCall
  /\ rooms = [c \in Codes |->
       [NewRoom(c) EXCEPT
          !.players = <<[id |-> "a", color |-> "B", score |-> 0],
                        [id |-> "b", color |-> "W", score |-> 0]>>,
          !.sockets = {"c1", "c2"},
          !.board = EndgameBoard,
          !.turn = WHITE,
          !.started = TRUE]]
  /\ ws = [s \in Socks |->
       [status |-> "open",
        clientId |-> IF s = "c1" THEN "a" ELSE IF s = "c2" THEN "b" ELSE "constructor",
        roomId |-> "ABC123"]]
  /\ sent = [s \in Socks |->
       IF s \in {"c1", "c2"}
       THEN <<[type |-> "move", x |-> 7, y |-> 1, color |-> "B", turn |-> WHITE]>>
       ELSE <<>>]
  /\ last = "place_stone"

SpecEndgame == InitEndgame /\ [][NextPlain]_vars

\* ------------------------------------------------- checkWin on its own

\* Boards to call checkWin on.  A line board holds MaxLine cells from an
\* anchor along one axis, each Empty, Black or White; the part of the line
\* beyond the edge of the board does not exist.
MaxLine == 6

Anchors ==
  {<<0, 0>>, <<5, 5>>, <<BOARD_SIZE - 5, BOARD_SIZE - 5>>, <<BOARD_SIZE - 4, 4>>}

LineCell(a, d, i) == <<a[1] + i * d[1], a[2] + i * d[2]>>

LineBoard(a, d, pat) ==
  LET on == {i \in 0..(MaxLine - 1) :
               /\ InBounds(LineCell(a, d, i)[1], LineCell(a, d, i)[2])
               /\ pat[i + 1] # EMPTY}
  IN [c \in {LineCell(a, d, i) : i \in on} |->
        pat[(CHOOSE i \in on : LineCell(a, d, i) = c) + 1]]

Stones(cells, color) == [c \in cells |-> color]

\* Boards on which five stones of a color touch without five in one line:
\* four across and four down through (5,5); three at the end of a row with
\* two at its start; two at the end of a row with three at the start of the
\* next.
OddBoards ==
  {Stones({<<3, 5>>, <<4, 5>>, <<5, 5>>, <<6, 5>>,
           <<5, 3>>, <<5, 4>>, <<5, 6>>}, color) : color \in {BLACK, WHITE}}
  \cup
  {Stones({<<BOARD_SIZE - 3, 3>>, <<BOARD_SIZE - 2, 3>>, <<BOARD_SIZE - 1, 3>>,
           <<0, 3>>, <<1, 3>>}, color) : color \in {BLACK, WHITE}}
  \cup
  {Stones({<<BOARD_SIZE - 2, 3>>, <<BOARD_SIZE - 1, 3>>,
           <<0, 4>>, <<1, 4>>, <<2, 4>>}, color) : color \in {BLACK, WHITE}}

Pending(board, q) == [board |-> board, x |-> q[1], y |-> q[2], result |-> "pending"]

\* The call is on a line board at one of the cells of its line, or on an odd
\* board at one of its stones or at the Empty cell (2,3).
InitCheckWin ==
  /\ \/ \E a \in Anchors, d \in directions, k \in 0..(MaxLine - 1),
           pat \in [1..MaxLine -> {EMPTY, BLACK, WHITE}] :
          /\ InBounds(LineCell(a, d, k)[1], LineCell(a, d, k)[2])
          /\ cw = Pending(LineBoard(a, d, pat), LineCell(a, d, k))
     \/ \E b \in OddBoards : \E q \in DOMAIN b \cup {<<2, 3>>} : cw = Pending(b, q)
  /\ rooms = <<>>
  /\ ws = [s \in Socks |-> [status |-> "idle", clientId |-> "", roomId |-> NoRoomId]]
  /\ sent = NoneSent
  /\ last = "init"

\* checkWin(board, x, y) is called and returns.
CheckWinCall ==
  /\ cw.result = "pending"
  /\ cw' = [cw EXCEPT !.result =
              IF checkWin(cw.board, cw.x, cw.y) THEN "true" ELSE "false"]
  /\ UNCHANGED <<rooms, ws, sent, last>>

NextCheckWin == CheckWinCall

SpecCheckWin == InitCheckWin /\ [][NextCheckWin]_vars

\* ----------------------------------------------------------- properties

\* The room a connection's messages act on.
RoomOf(s) == rooms[ws[s].roomId]

\* The seat an identity holds in a room: BLACK, WHITE, or EMPTY when the
\* identity is no player of the room or has no color yet.
Seat(r, cid) ==
  IF \E i \in 1..Len(r.players) : r.players[i].id = cid /\ r.players[i].color = "B"
  THEN BLACK
  ELSE IF \E i \in 1..Len(r.players) : r.players[i].id = cid /\ r.players[i].color = "W"
  THEN WHITE
  ELSE EMPTY

IsPlayer(r, cid) == \E i \in 1..Len(r.players) : r.players[i].id = cid

\* The conditions under which C1 says a move must be ignored.
C1_MustIgnore(s, x, y) ==
  /\ Bound(s)
  /\ \/ ~(x \in 0..(BOARD_SIZE - 1) /\ y \in 0..(BOARD_SIZE - 1))
     \/ Cell(RoomOf(s).board, x, y) # EMPTY
     \/ ~RoomOf(s).started
     \/ RoomOf(s).winner # EMPTY
     \/ ~IsPlayer(RoomOf(s), ws[s].clientId)
     \/ Seat(RoomOf(s), ws[s].clientId) # RoomOf(s).turn

\* C1: a place_stone that is out of bounds, on an occupied cell, in a room
\* that is not started or already has a winner, from a sender that is no
\* player of the room or whose color is not room.turn, changes nothing in
\* the registry and sends nothing to anyone.
C1_RejectedMoveIsNoOp ==
  [][\A s \in Socks, m \in MoveInputs :
       (last' = "place_stone" /\ C1_MustIgnore(s, m[1], m[2])
          /\ PlaceStone(s, m[1], m[2]))
         => (rooms' = rooms /\ sent' = NoneSent)]_vars

\* A run of five through (x,y): on one of the four axes, five consecutive
\* in-bounds cells that include (x,y) and all hold the color of (x,y).
Axes == {<<1, 0>>, <<0, 1>>, <<1, 1>>, <<1, -1>>}

RunThrough(board, x, y) ==
  /\ Cell(board, x, y) # EMPTY
  /\ \E d \in Axes, k \in 0..4 :
       \A i \in 0..4 :
         /\ InBounds(x + (i - k) * d[1], y + (i - k) * d[2])
         /\ Cell(board, x + (i - k) * d[1], y + (i - k) * d[2]) = Cell(board, x, y)

Other(color) == IF color = BLACK THEN WHITE ELSE BLACK

ColorName(color) == IF color = BLACK THEN "B" ELSE "W"

\* What each connection receives when msg is broadcast once to room r.
OnceToRoom(r, msg) ==
  [t \in Socks |-> IF t \in r.sockets /\ ws[t].status = "open" THEN <<msg>> ELSE <<>>]

\* The step is place_stone {x,y} from s, and it changed the room.
AcceptedMove(s, x, y) ==
  /\ last' = "place_stone"
  /\ rooms' # rooms
  /\ PlaceStone(s, x, y)

\* C2: an accepted move that completes no run of five puts one stone of the
\* mover's color on an Empty cell, changes nothing else of the board, passes
\* the turn to the other color, leaves winner None and broadcasts one move
\* message with the coordinate, the mover's color and the new turn; an
\* accepted move that completes a run does not pass the turn.
C2_AcceptedMoveTurn ==
  [][\A s \in Socks, m \in MoveInputs :
       AcceptedMove(s, m[1], m[2]) =>
         LET code == ws[s].roomId
             r == rooms[code]
             r2 == rooms'[code]
             mine == Seat(r, ws[s].clientId)
         IN IF RunThrough(r2.board, m[1], m[2])
            THEN r2.turn = r.turn
            ELSE /\ r2.turn = Other(r.turn)
                 /\ Cell(r.board, m[1], m[2]) = EMPTY
                 /\ mine # EMPTY
                 /\ r2.board = SetCell(r.board, m[1], m[2], mine)
                 /\ r2.winner = EMPTY /\ r.winner = EMPTY
                 /\ sent' = OnceToRoom(r2, [type |-> "move", x |-> m[1], y |-> m[2],
                                            color |-> ColorName(mine),
                                            turn |-> r2.turn])]_vars

\* C3: an accepted move that completes a run of five of the mover's color
\* sets winner to that color, adds exactly 1 to the mover's score and leaves
\* every other score alone, and broadcasts game_end with that winner; no
\* other step sets winner to a color.
C3_WinScoresOnce ==
  [][/\ \A s \in Socks, m \in MoveInputs :
          (AcceptedMove(s, m[1], m[2])
           /\ RunThrough(rooms'[ws[s].roomId].board, m[1], m[2])) =>
            LET code == ws[s].roomId
                r == rooms[code]
                r2 == rooms'[code]
                cid == ws[s].clientId
            IN /\ r2.winner = Cell(r2.board, m[1], m[2])
               /\ r2.winner = Seat(r, cid)
               /\ \E i \in 1..Len(r.players) :
                    /\ r.players[i].id = cid
                    /\ r2.players = [r.players EXCEPT ![i].score = @ + 1]
               /\ sent' = OnceToRoom(r2, [type |-> "game_end", winner |-> r2.winner,
                                          board |-> r2.board, players |-> r2.players])
     /\ \A c \in DOMAIN rooms' :
          (rooms'[c].winner # EMPTY
           /\ (c \notin DOMAIN rooms \/ rooms[c].winner # rooms'[c].winner)) =>
            /\ last' = "place_stone"
            /\ \E m \in MoveInputs :
                 /\ Cell(rooms[c].board, m[1], m[2]) = EMPTY
                 /\ RunThrough(rooms'[c].board, m[1], m[2])]_vars

\* C4: checkWin returns true exactly when the cell is not Empty and lies in
\* a run of five of its color on one of the four axes, all within the board.
C4_CheckWinIsRunOfFive ==
  cw.result \in {"true", "false"} =>
    (cw.result = "true" <=> RunThrough(cw.board, cw.x, cw.y))

\* A call that returned true for a stone at the right edge of the board.
C4_Witness ==
  /\ cw.result = "true"
  /\ cw.x = BOARD_SIZE - 1

JoinCodes == Codes \cup {UnknownCode}

\* C5: a join_room for a code that is not registered, or for a room that
\* already has two connections, sends one error message to the requester and
\* nothing to anyone else, and changes no room and no connection's binding.
C5_RejectedJoin ==
  [][\A s \in Socks, code \in JoinCodes :
       (/\ last' = "join_room"
        /\ code \notin DOMAIN rooms \/ Cardinality(rooms[code].sockets) >= 2
        /\ JoinRoom(s, code, 1))
       => /\ rooms' = rooms
          /\ ws' = ws
          /\ Len(sent'[s]) = 1 /\ sent'[s][1].type = "error"
          /\ \A t \in Socks \ {s} : sent'[t] = <<>>]_vars

\* A join_room was just refused with an error, in a state with a room.
C5_Witness ==
  /\ last = "join_room"
  /\ rooms # <<>>
  /\ \E s \in Socks : Len(sent[s]) = 1 /\ sent[s][1].type = "error"

\* The colors the players of a room hold, in the order of the keys.
Colors(r) == [i \in 1..Len(r.players) |-> r.players[i].color]

\* A join_room of s for code would be accepted and leave the room with two
\* connections and two players.
FillsRoom(s, code) ==
  /\ ws[s].status = "open"
  /\ code \in DOMAIN rooms
  /\ s \notin rooms[code].sockets
  /\ Cardinality(rooms[code].sockets) = 1
  /\ Len(JoinAccepted(rooms[code], s, 1).players) = 2

\* A step is possible that is a join_room leaving the players of the room
\* with these colors.
CanDraw(code, colors) ==
  ENABLED (last' = "join_room" /\ Next /\ code \in DOMAIN rooms'
           /\ Colors(rooms'[code]) = colors)

C6_BothDraws ==
  \A s \in Socks, code \in Codes :
    FillsRoom(s, code) => CanDraw(code, <<"B", "W">>) /\ CanDraw(code, <<"W", "B">>)

C6_Step ==
  last' = "join_room" =>
    \A code \in DOMAIN rooms \cap DOMAIN rooms' :
      (/\ rooms'[code].sockets # rooms[code].sockets
       /\ Cardinality(rooms'[code].sockets) = 2
       /\ Len(rooms'[code].players) = 2)
      => /\ Colors(rooms'[code]) \in {<<"B", "W">>, <<"W", "B">>}
         /\ rooms'[code].started
         /\ rooms'[code].turn = BLACK

\* C6: an accepted join_room that brings a room to two connections, the room
\* then having two players, leaves one player Black and the other White,
\* started true and turn Black; and wherever such a join can happen, each of
\* the two ways to hand out the colors can be its outcome.
C6_ColorsAssigned == [](C6_BothDraws) /\ [][C6_Step]_vars

\* A game was just started by a join, and the draw gave Black to the player
\* who joined last.
C6_Witness ==
  /\ last = "join_room"
  /\ \E code \in DOMAIN rooms :
       /\ rooms[code].started
       /\ Cardinality(rooms[code].sockets) = 2
       /\ Colors(rooms[code]) = <<"W", "B">>

\* What one request_restart step did to the room of its sender: the reset, or
\* a counted vote.
IsReset(r, r2) ==
  /\ r2.board = createEmptyBoard
  /\ r2.turn = BLACK
  /\ r2.winner = EMPTY
  /\ r2.started = (Cardinality(r.sockets) >= 2)
  /\ r2.restartVotes = {}
  /\ sent' = OnceToRoom(r2, [type |-> "restart", room |-> serializeRoomPublic(r2)])

IsVote(r, r2, votes) ==
  /\ r2.board = r.board
  /\ r2.turn = r.turn
  /\ r2.winner = r.winner
  /\ r2.started = r.started
  /\ sent' = OnceToRoom(r2, [type |-> "restart_vote", votes |-> votes])

\* C7: in a room with two connections a request_restart from the only
\* identity that has voted since the last restart or game start changes
\* nothing of the game and broadcasts restart_vote with votes = 1, and one
\* that makes two distinct voters performs the reset; in a room with one
\* connection a single vote performs the reset.
C7_RestartQuorum ==
  [][\A s \in Socks :
       (last' = "request_restart" /\ Bound(s) /\ RequestRestart(s)) =>
         LET r == RoomOf(s)
             r2 == rooms'[ws[s].roomId]
             n == Cardinality(r.sockets)
         IN /\ n = 2 => IF r.voted \cup {ws[s].clientId} = {ws[s].clientId}
                        THEN IsVote(r, r2, 1)
                        ELSE IsReset(r, r2)
            /\ n = 1 => IsReset(r, r2)]_vars

\* The connection is in the connection set of the room it is bound to.
Attached(s) == Bound(s) /\ s \in RoomOf(s).sockets

\* The step is leave_room from s or the close of s.
Departure(s) ==
  /\ last' \in {"leave_room", "close"}
  /\ ws[s].status = "open"
  /\ Attached(s)
  /\ LeaveRoom(s) \/ Close(s)

C9_EmptiedRoomDeleted ==
  [][\A s \in Socks :
       (Departure(s) /\ RoomOf(s).sockets = {s}) =>
         ws[s].roomId \notin DOMAIN rooms']_vars

\* C10: every room has at most two connections and at most two players.
C10_AtMostTwo ==
  \A code \in DOMAIN rooms :
    /\ Cardinality(rooms[code].sockets) <= 2
    /\ Len(rooms[code].players) <= 2

\* A room holds two connections and two players, and a third connection has
\* just been told that the room is full.
C10_Witness ==
  \E code \in DOMAIN rooms, s \in Socks :
    /\ Cardinality(rooms[code].sockets) = 2
    /\ Len(rooms[code].players) = 2
    /\ s \notin rooms[code].sockets
    /\ ws[s].status = "open"
    /\ Len(sent[s]) = 1
    /\ sent[s][1].type = "error"
    /\ last = "join_room"

\* C11: a connection is in the connection set of no room except the one its
\* ws.roomId names, so of one room at most.
C11_OneRoomPerConnection ==
  \A s \in Socks, code \in DOMAIN rooms :
    s \in rooms[code].sockets => ws[s].roomId = code

\* C12: a started room has exactly two connections and exactly two players,
\* one Black and one White.
C12_StartedMeansTwo ==
  \A code \in DOMAIN rooms :
    rooms[code].started =>
      /\ Cardinality(rooms[code].sockets) = 2
      /\ Colors(rooms[code]) \in {<<"B", "W">>, <<"W", "B">>}

\* C13: restartVotes holds only identities that sent request_restart since
\* the room's last restart or game start.
C13_VotesAreCurrent ==
  \A code \in DOMAIN rooms : rooms[code].restartVotes \subseteq rooms[code].voted

\* C14: a create_room message or a request to /api/create leaves every room
\* that was registered before resolvable by its code and unchanged, the new
\* room being registered under one more code.
C14_CreateKeepsRooms ==
  [][last' \in {"create_room", "http_create"} =>
       /\ \A code \in DOMAIN rooms :
            code \in DOMAIN rooms' /\ rooms'[code] = rooms[code]
       /\ Cardinality(DOMAIN rooms') = Cardinality(DOMAIN rooms) + 1]_vars

RoomWide == {"room_update", "move", "game_end", "restart", "restart_vote"}

\* How many room-wide messages a connection received in the step.
Broadcasts(s) == Cardinality({i \in 1..Len(sent'[s]) : sent'[s][i].type \in RoomWide})

\* The broadcast of the step reached each connection of the room once and no
\* other connection.
DeliveredTo(code) ==
  \A t \in Socks :
    Broadcasts(t) = IF code \in DOMAIN rooms' /\ t \in rooms'[code].sockets
                    THEN 1 ELSE 0

\* C15: every step that broadcasts to a room delivers the message once to
\* each connection in the room's connection set, the sender included when it
\* is in the set, and to no other connection.
C15_BroadcastReachesRoom ==
  [][/\ \A s \in Socks, code \in DOMAIN rooms' :
          (last' = "create_room" /\ CreateRoomMsg(s, code)) => DeliveredTo(code)
     /\ \A s \in Socks, code \in DOMAIN rooms, first \in {1, 2} :
          (last' = "join_room" /\ ~RoomFull(rooms[code]) /\ JoinRoom(s, code, first))
            => DeliveredTo(code)
     /\ \A s \in Socks, m \in MoveInputs :
          AcceptedMove(s, m[1], m[2]) => DeliveredTo(ws[s].roomId)
     /\ \A s \in Socks :
          (last' \in {"request_restart", "leave_room", "close"} /\ Bound(s)
           /\ ws[s].status = "open"
           /\ (RequestRestart(s) \/ LeaveRoom(s) \/ Close(s)))
            => DeliveredTo(ws[s].roomId)]_vars

\* The sender of a place_stone is the player to move in a started room
\* without a winner.
ToMove(s) ==
  /\ Bound(s)
  /\ RoomOf(s).started
  /\ RoomOf(s).winner = EMPTY
  /\ Seat(RoomOf(s), ws[s].clientId) = RoomOf(s).turn

\* C16: a place_stone with a missing or non-integer x or y from the player
\* to move changes nothing, sends nothing, and its handler returns.
C16_OtherPayloadIgnored ==
  [][\A s \in Socks, m \in OtherInputs, survives \in BOOLEAN :
       (ToMove(s) /\ PlaceStoneOther(s, m[1], m[2], survives))
         => /\ last' = "place_stone"
            /\ rooms' = rooms
            /\ ws' = ws
            /\ sent' = NoneSent]_vars

\* C17: the board of a room changes only by an accepted place_stone, which
\* puts the color that is room.turn, the sender's own color, on one Empty
\* cell and leaves every other cell alone, or by a restart, which empties it.
C17_CellsChangeOnce ==
  [][\A code \in DOMAIN rooms \cap DOMAIN rooms' :
       rooms'[code].board # rooms[code].board =>
         \/ /\ last' = "request_restart"
            /\ rooms'[code].board = createEmptyBoard
         \/ /\ last' = "place_stone"
            /\ \E s \in Socks, m \in MoveInputs :
                 /\ ws[s].status = "open"
                 /\ ws[s].roomId = code
                 /\ InBounds(m[1], m[2])
                 /\ Cell(rooms[code].board, m[1], m[2]) = EMPTY
                 /\ rooms'[code].board =
                      SetCell(rooms[code].board, m[1], m[2], rooms[code].turn)
                 /\ Seat(rooms[code], ws[s].clientId) = rooms[code].turn
                 /\ PlaceStone(s, m[1], m[2])]_vars

\* C18: a room with a connection is never left with a request_restart
\* pending from every one of its connections: the vote of the last of them
\* resets the room.
C18_AllVotedResets ==
  \A code \in DOMAIN rooms :
    rooms[code].sockets # {} => ~(rooms[code].sockets \subseteq rooms[code].votedBy)

\* The connection is bound to a room it is no longer in, which other
\* connections still are in.
HasLeft(s) ==
  /\ ws[s].status = "open"
  /\ Bound(s)
  /\ s \notin RoomOf(s).sockets
  /\ RoomOf(s).sockets # {}

\* The program's fields of a room.
Fields(r) ==
  [started |-> r.started, winner |-> r.winner, board |-> r.board, turn |-> r.turn,
   players |-> r.players, restartVotes |-> r.restartVotes, sockets |-> r.sockets]

\* C19: place_stone, request_restart, leave_room and the close of a
\* connection that left its room by leave_room change nothing of that room
\* and send nothing, while other connections are in the room.
C19_LeftMeansGone ==
  [][\A s \in Socks :
       (/\ last' \in {"place_stone", "request_restart", "leave_room", "close"}
        /\ HasLeft(s)
        /\ \/ \E m \in MoveInputs : PlaceStone(s, m[1], m[2])
           \/ RequestRestart(s)
           \/ LeaveRoom(s)
           \/ Close(s))
       => /\ ws[s].roomId \in DOMAIN rooms'
          /\ Fields(rooms'[ws[s].roomId]) = Fields(RoomOf(s))
          /\ sent' = NoneSent]_vars

\* The stones of a color on a board.
Count(board, color) == Cardinality({c \in DOMAIN board : board[c] = color})

\* C20: in a started room without a winner Black has as many stones as White
\* when Black is to move, and one more when White is to move.
C20_StonesMatchTurn ==
  \A code \in DOMAIN rooms :
    (rooms[code].started /\ rooms[code].winner = EMPTY) =>
      Count(rooms[code].board, BLACK) =
        Count(rooms[code].board, WHITE) + (IF rooms[code].turn = WHITE THEN 1 ELSE 0)

\* The identities that are keys of players, and the tokens of the
\* connections in the room's connection set.
PlayerIds(r) == {r.players[i].id : i \in 1..Len(r.players)}

TokensIn(r) == {ws[s].clientId : s \in r.sockets}

\* C21: the keys of players are the tokens of the connections in the room.
C21_PlayersAreOccupants ==
  \A code \in DOMAIN rooms : PlayerIds(rooms[code]) = TokensIn(rooms[code])

\* C22: the board of a started room without a winner holds no run of five.
C22_OpenGameHasNoLine ==
  \A code \in DOMAIN rooms :
    (rooms[code].started /\ rooms[code].winner = EMPTY) =>
      \A c \in DOMAIN rooms[code].board : ~RunThrough(rooms[code].board, c[1], c[2])

====
